---- MODULE Spec2Model ----
(***************************************************************************)
(* Tree navigation and path addressing of json-mapper: the path            *)
(* serializer (utils/pathGenerator.ts), the filter engine                  *)
(* (utils/filter.ts), the expansion state of the store                     *)
(* (store/appStore.ts) and the expansion/visibility decisions of the tree  *)
(* and text views (components/JsonTreeNode.tsx, components/TextView.tsx).   *)
(*                                                                         *)
(* A JavaScript string is a sequence of one-character strings, so that     *)
(* concatenation, startsWith, includes, split and replace are computed     *)
(* character by character as the code computes them.                       *)
(***************************************************************************)
EXTENDS Integers, Sequences, FiniteSets, TLC

VARIABLES jsonData, metadata, pathFormat, filterQuery, caseSensitive,
          expandedPaths, collapsedPaths, lastOp,
          mountedNodes, renderError, shownBefore, expandedBefore, countBefore,
          pathCall, matchCall,
          searchQuery, searchInputValue, searchTimer, searchCaseSensitive,
          currentSearchIndex, searchMatchCount,
          isLoading, error, importHistory, pendingImport, nextId,
          bookmarks, storage, lastSaved,
          showCopyNotification, copyMessage, selectedPath, timers, nextTimer,
          shownBy, lastHide

\* the state of the mounted JsonTreeNode components and its history
treeVars == <<mountedNodes, renderError, shownBefore, expandedBefore, countBefore>>

\* the last call of the path serializer and parser: arguments and results
pathVars == <<pathCall>>

\* the last call of getMatchingPaths: arguments and result
matchVars == <<matchCall>>

\* the calls of the pure functions
pureVars == <<pathVars, matchVars>>

\* the state of the store
storeVars == <<jsonData, metadata, pathFormat, filterQuery, caseSensitive,
               expandedPaths, collapsedPaths, lastOp>>

\* the search state of the store and of the toolbar's debounced input
searchVars == <<searchQuery, searchInputValue, searchTimer, searchCaseSensitive,
                currentSearchIndex, searchMatchCount>>

\* the import state of the store, the import in flight and the ids handed out
importVars == <<isLoading, error, importHistory, pendingImport, nextId>>

\* the bookmarks of the store, the localStorage item and the last list handed
\* to saveBookmarks
bookmarkVars == <<bookmarks, storage, lastSaved>>

\* the notification of the store, the store's currentPath (selectedPath), the
\* pending setTimeout callbacks in the order they are due and the ids handed
\* out; shownBy is the timer started with the notification shown, lastHide
\* what the last timer callback found
notificationVars == <<showCopyNotification, copyMessage, selectedPath, timers,
                      nextTimer, shownBy, lastHide>>

\* the state beside search and import
sideVars == <<bookmarkVars, notificationVars>>

\* the rest of the session state
sessionVars == <<searchVars, importVars, sideVars>>

vars == <<storeVars, treeVars, pureVars, sessionVars>>

-----------------------------------------------------------------------------
(* Strings *)

Digit == {"0", "1", "2", "3", "4", "5", "6", "7", "8", "9"}

DigitChars == <<"0", "1", "2", "3", "4", "5", "6", "7", "8", "9">>

Whitespace == {" "}

UpperChars == <<"A", "B", "C", "D", "E", "F", "G", "H", "I", "J", "K", "L", "M",
                "N", "O", "P", "Q", "R", "S", "T", "U", "V", "W", "X", "Y", "Z">>

LowerChars == <<"a", "b", "c", "d", "e", "f", "g", "h", "i", "j", "k", "l", "m",
                "n", "o", "p", "q", "r", "s", "t", "u", "v", "w", "x", "y", "z">>

\* String.prototype.toLowerCase, one character
LowerChar(c) ==
    IF \E i \in 1..Len(UpperChars) : UpperChars[i] = c
    THEN LowerChars[CHOOSE i \in 1..Len(UpperChars) : UpperChars[i] = c]
    ELSE c

\* String.prototype.toLowerCase
toLowerCase(s) == [i \in 1..Len(s) |-> LowerChar(s[i])]

\* String.prototype.startsWith
startsWith(s, p) == Len(p) <= Len(s) /\ SubSeq(s, 1, Len(p)) = p

\* String.prototype.includes
includes(s, q) == \E i \in 0..(Len(s) - Len(q)) : SubSeq(s, i + 1, i + Len(q)) = q

\* !s.trim(): the string is empty or all whitespace
IsBlank(s) == \A i \in 1..Len(s) : s[i] \in Whitespace

\* String.prototype.trim
trim(s) ==
    IF IsBlank(s) THEN <<>>
    ELSE LET first == CHOOSE i \in 1..Len(s) :
                          s[i] \notin Whitespace /\ \A j \in 1..(i - 1) : s[j] \in Whitespace
             last == CHOOSE i \in 1..Len(s) :
                          s[i] \notin Whitespace /\ \A j \in (i + 1)..Len(s) : s[j] \in Whitespace
         IN SubSeq(s, first, last)

\* key.replace(/"/g, '\\"') and key.replace(/'/g, "\\'"): a backslash before each q
RECURSIVE replaceQuote(_, _)
replaceQuote(s, q) ==
    IF s = <<>> THEN <<>>
    ELSE (IF Head(s) = q THEN <<"\\", q>> ELSE <<Head(s)>>) \o replaceQuote(Tail(s), q)

\* String(index) for an array index
RECURSIVE IndexString(_)
IndexString(n) ==
    IF n < 10 THEN <<DigitChars[n + 1]>>
    ELSE IndexString(n \div 10) \o <<DigitChars[(n % 10) + 1]>>

AllDigits(s) == \A i \in 1..Len(s) : s[i] \in Digit

\* StrDecimalLiteral without sign or exponent: 12, 1., .5, 1.5
IsDecimalBody(s) ==
    \/ Len(s) > 0 /\ AllDigits(s)
    \/ \E d \in 1..Len(s) :
          /\ s[d] = "."
          /\ AllDigits(SubSeq(s, 1, d - 1))
          /\ AllDigits(SubSeq(s, d + 1, Len(s)))
          /\ Len(s) > 1

IsSignedDigits(s) ==
    LET body == IF Len(s) > 0 /\ s[1] \in {"+", "-"} THEN Tail(s) ELSE s
    IN  Len(body) > 0 /\ AllDigits(body)

IsDecimalLiteral(s) ==
    \/ IsDecimalBody(s)
    \/ \E e \in 2..(Len(s) - 1) :
          /\ s[e] \in {"e", "E"}
          /\ IsDecimalBody(SubSeq(s, 1, e - 1))
          /\ IsSignedDigits(SubSeq(s, e + 1, Len(s)))
    \/ s = <<"I", "n", "f", "i", "n", "i", "t", "y">>

IsRadixLiteral(s) ==
    /\ Len(s) >= 3
    /\ s[1] = "0"
    /\ LET body == SubSeq(s, 3, Len(s))
       IN \/ s[2] \in {"b", "B"} /\ \A i \in 1..Len(body) : body[i] \in {"0", "1"}
          \/ s[2] \in {"o", "O"} /\ \A i \in 1..Len(body) : body[i] \in {"0", "1", "2", "3", "4", "5", "6", "7"}
          \/ s[2] \in {"x", "X"} /\ \A i \in 1..Len(body) :
                body[i] \in Digit \cup {"a", "b", "c", "d", "e", "f", "A", "B", "C", "D", "E", "F"}

\* !isNaN(Number(s)): StringToNumber of the trimmed text is a number
IsNumberString(s) ==
    \/ Len(s) > 0 /\ AllDigits(s)
    \/ LET t == trim(s)
           unsigned == IF Len(t) > 0 /\ t[1] \in {"+", "-"} THEN Tail(t) ELSE t
       IN  \/ t = <<>>
           \/ IsDecimalLiteral(unsigned)
           \/ IsRadixLiteral(t)

-----------------------------------------------------------------------------
(* utils/pathGenerator.ts *)

PathFormats == {"jmespath", "jsonpath", "javascript", "python"}

\* /[.\[\]\s-]/.test(key) || /^\d+$/.test(key)
needsEscape(key) ==
    \/ \E i \in 1..Len(key) : key[i] \in {".", "[", "]", "-"} \cup Whitespace
    \/ Len(key) > 0 /\ AllDigits(key)

escapeKey(key, format) ==
    CASE format = "jmespath" ->
            IF needsEscape(key) THEN <<"\"">> \o replaceQuote(key, "\"") \o <<"\"">> ELSE key
      [] format = "jsonpath" -> <<"[", "'">> \o replaceQuote(key, "'") \o <<"'", "]">>
      [] format = "javascript" ->
            IF needsEscape(key) THEN <<"[", "'">> \o replaceQuote(key, "'") \o <<"'", "]">>
            ELSE <<".">> \o key
      [] format = "python" -> <<"[", "'">> \o replaceQuote(key, "'") \o <<"'", "]">>
      [] OTHER -> key

\* one iteration of the forEach of generatePath: path after segment number index (0-based)
appendSegment(path, segment, index, format) ==
    IF segment.isArrayIndex THEN path \o <<"[">> \o segment.key \o <<"]">>
    ELSE IF index = 0
         THEN CASE format = "jsonpath" -> <<"$">> \o escapeKey(segment.key, format)
                [] format \in {"javascript", "python"} -> segment.key
                [] format = "jmespath" -> escapeKey(segment.key, format)
                [] OTHER -> path
         ELSE LET escaped == escapeKey(segment.key, format)
              IN  IF format = "javascript" /\ ~startsWith(escaped, <<"[">>) THEN path \o escaped
                  ELSE IF format = "jmespath" /\ ~startsWith(escaped, <<"\"">>)
                       THEN path \o <<".">> \o escaped
                       ELSE path \o escaped

RECURSIVE generatePathFrom(_, _, _, _)
generatePathFrom(path, segments, index, format) ==
    IF index >= Len(segments) THEN path
    ELSE generatePathFrom(appendSegment(path, segments[index + 1], index, format),
                          segments, index + 1, format)

generatePath(segments, format) ==
    IF Len(segments) = 0 THEN <<>> ELSE generatePathFrom(<<>>, segments, 0, format)

\* the characters the class [^.\[\]] of parsePath's regex excludes
PathDelimiters == {".", "[", "]"}

QuoteChars == {"\"", "'"}

\* match[1].replace(/^["']|["']$/g, ''): one quote character removed at the
\* start, and one at the end unless it is the one removed at the start
stripQuotes(key) ==
    LET leading == Len(key) >= 1 /\ key[1] \in QuoteChars
        trailing == Len(key) >= 2 /\ key[Len(key)] \in QuoteChars
    IN  SubSeq(key, IF leading THEN 2 ELSE 1, IF trailing THEN Len(key) - 1 ELSE Len(key))

\* the last position of the longest run of characters of `class` (TRUE: the
\* class [^.\[\]], FALSE: \d) that starts at position i
RECURSIVE runEnd(_, _, _)
runEnd(s, i, keyClass) ==
    IF /\ i < Len(s)
       /\ IF keyClass THEN s[i + 1] \notin PathDelimiters ELSE s[i + 1] \in Digit
    THEN runEnd(s, i + 1, keyClass)
    ELSE i

\* /\.?([^.\[\]]+)|\[(\d+)\]/ tried at position i (1-based) of s: whether it
\* matches there, the segment pushed for the match and the position after it
matchAt(s, i) ==
    LET start == IF s[i] = "." THEN i + 1 ELSE i
    IN  IF start <= Len(s) /\ s[start] \notin PathDelimiters
        THEN [found |-> TRUE,
              segment |-> [key |-> stripQuotes(SubSeq(s, start, runEnd(s, start, TRUE))),
                           isArrayIndex |-> FALSE],
              next |-> runEnd(s, start, TRUE) + 1]
        ELSE IF /\ s[i] = "["
                /\ i + 1 <= Len(s) /\ s[i + 1] \in Digit
                /\ runEnd(s, i + 1, FALSE) + 1 <= Len(s)
                /\ s[runEnd(s, i + 1, FALSE) + 1] = "]"
             THEN [found |-> TRUE,
                   segment |-> [key |-> SubSeq(s, i + 1, runEnd(s, i + 1, FALSE)),
                                isArrayIndex |-> TRUE],
                   next |-> runEnd(s, i + 1, FALSE) + 2]
             ELSE [found |-> FALSE, segment |-> [key |-> <<>>, isArrayIndex |-> FALSE],
                   next |-> i + 1]

\* the while loop over regex.exec(cleanPath): the next match at or after
\* position i, searched from left to right
RECURSIVE parseFrom(_, _, _)
parseFrom(s, i, segments) ==
    IF i > Len(s) THEN segments
    ELSE LET m == matchAt(s, i)
         IN  parseFrom(s, m.next, IF m.found THEN Append(segments, m.segment) ELSE segments)

parsePath(path) ==
    LET cleanPath == IF startsWith(path, <<"$">>) THEN Tail(path) ELSE path
    IN  parseFrom(cleanPath, 1, <<>>)

\* no call of the serializer yet
NoPathCall ==
    [op |-> "none", segments |-> <<>>, format |-> "jmespath", path |-> <<>>, parsed |-> <<>>]

-----------------------------------------------------------------------------
(* JSON values (types JsonValue): null, primitives, arrays, objects in       *)
(* insertion order.  A number or boolean carries the text String(value).    *)

Null == [type |-> "null"]
StringValue(s) == [type |-> "string", text |-> s]
NumberValue(s) == [type |-> "number", text |-> s]
ArrayValue(items) == [type |-> "array", items |-> items]
ObjectValue(entries) == [type |-> "object", entries |-> entries]
Entry(key, value) == [key |-> key, value |-> value]

\* utils/pathGenerator.ts getJsonType
getJsonType(value) == value.type

isExpandable(value) == getJsonType(value) \in {"object", "array"}

\* the [key, value] pairs of a container: getChildEntries / Object.entries / forEach
childEntries(value) ==
    IF value.type = "array"
    THEN [i \in 1..Len(value.items) |-> Entry(IndexString(i - 1), value.items[i])]
    ELSE IF value.type = "object" THEN value.entries
    ELSE <<>>

Segment(key, isArrayIndex) == [key |-> key, isArrayIndex |-> isArrayIndex]

\* the segment the traversals of filter.ts and TextView.tsx build for a child
childSegment(parent, i) ==
    Segment(childEntries(parent)[i].key, parent.type = "array")

\* JsonTreeNode: currentSegments = [...pathSegments, {key: nodeKey,
\*   isArrayIndex: !isNaN(Number(nodeKey)) && pathSegments.length > 0}]
currentSegments(pathSegments, nodeKey) ==
    Append(pathSegments, Segment(nodeKey, IsNumberString(nodeKey) /\ Len(pathSegments) > 0))

\* Every node below the root with both segment lists: segments as the
\* traversals build them, nodeSegments as the JsonTreeNode components build them
\* (JsonTree passes pathSegments = [] to the root entries, each node passes its
\* currentSegments to its children).
RECURSIVE nodesBelow(_, _, _)
nodesBelow(value, segments, nodeSegments) ==
    LET entries == childEntries(value)
    IN  UNION { LET child == [segments |-> Append(segments, childSegment(value, i)),
                              nodeSegments |-> currentSegments(nodeSegments, entries[i].key),
                              value |-> entries[i].value]
                IN  {child} \cup nodesBelow(child.value, child.segments, child.nodeSegments)
              : i \in 1..Len(entries) }

treeNodes(data) == nodesBelow(data, <<>>, <<>>)

\* JsonTreeNode: currentPath = generatePath(currentSegments, 'jmespath')
currentPath(node) == generatePath(node.nodeSegments, "jmespath")

\* the canonical native path of a node
nativePath(node) == generatePath(node.segments, "jmespath")

\* a is a structural strict ancestor of d
isProperAncestor(a, d) ==
    /\ Len(a.segments) < Len(d.segments)
    /\ SubSeq(d.segments, 1, Len(a.segments)) = a.segments

-----------------------------------------------------------------------------
(* utils/filter.ts *)

\* matches(text) that never lower-cases
matchesExactly(text, query, cs) == includes(text, query)

\* matches(text) inside getMatchingPaths
matches(text, query, cs) ==
    IF cs THEN includes(text, query) ELSE includes(toLowerCase(text), toLowerCase(query))

\* traverse(value, segments) inside getMatchingPaths: the paths it adds
RECURSIVE traverse(_, _, _, _, _)
traverse(value, segments, query, format, cs) ==
    LET path == IF Len(segments) > 0 THEN generatePath(segments, format) ELSE <<>>
        keyMatch == IF Len(segments) > 0 /\ matches(segments[Len(segments)].key, query, cs)
                    THEN {path} ELSE {}
    IN  keyMatch \cup
        (CASE value.type = "null" ->
                 IF matches(<<"n", "u", "l", "l">>, query, cs) THEN {path} ELSE {}
           [] value.type \in {"array", "object"} ->
                 UNION { traverse(childEntries(value)[i].value,
                                  Append(segments, childSegment(value, i)), query, format, cs)
                       : i \in 1..Len(childEntries(value)) }
           [] OTHER -> IF matches(value.text, query, cs) THEN {path} ELSE {})

getMatchingPaths(data, query, format, cs) ==
    IF IsBlank(query) THEN {} ELSE traverse(data, <<>>, query, format, cs)

\* no call of getMatchingPaths yet
NoMatchCall ==
    [op |-> "none", data |-> [type |-> "null"], query |-> <<>>, format |-> "jmespath",
     caseSensitive |-> FALSE, result |-> {}]

shouldShowNode(nodePath, matchingPaths) ==
    IF matchingPaths = {} THEN TRUE
    ELSE IF nodePath \in matchingPaths THEN TRUE
    ELSE \E matchPath \in matchingPaths :
            \/ startsWith(matchPath, nodePath \o <<".">>)
            \/ startsWith(matchPath, nodePath \o <<"[">>)

\* the node's own key or, for a leaf, its stringified value contains the query
nodeMatches(node, query, cs) ==
    \/ matches(node.segments[Len(node.segments)].key, query, cs)
    \/ node.value.type = "null" /\ matches(<<"n", "u", "l", "l">>, query, cs)
    \/ node.value.type \in {"string", "number"} /\ matches(node.value.text, query, cs)

-----------------------------------------------------------------------------
(* store/appStore.ts: the expansion state *)

EXPAND_ALL == <<"_", "_", "E", "X", "P", "A", "N", "D", "_", "A", "L", "L", "_", "_">>

EXPAND_TO_DEPTH_2 == <<"_", "_", "E", "X", "P", "A", "N", "D", "_", "T", "O", "_",
                       "D", "E", "P", "T", "H", "_", "2", "_", "_">>

EXPAND_TO_DEPTH_4 == <<"_", "_", "E", "X", "P", "A", "N", "D", "_", "T", "O", "_",
                       "D", "E", "P", "T", "H", "_", "4", "_", "_">>

\* jsonData: null, metadata: null
NoData == [type |-> "none"]

\* error: null
NoError == [message |-> "null"]

\* no import handler is running
NoImport == [source |-> "none", outcome |-> [ok |-> FALSE, value |-> NoData], active |-> FALSE]
NoMetadata == [nodeCount |-> -1, present |-> FALSE]
Metadata(n) == [nodeCount |-> n, present |-> TRUE]

\* a value read through a missing property or index
Undefined == [type |-> "undefined"]

\* s.split(/[.\[\]]/).filter(Boolean): the non-empty tokens between delimiters
RECURSIVE splitTokens(_, _, _)
splitTokens(s, token, done) ==
    IF s = <<>> THEN (IF token = <<>> THEN done ELSE Append(done, token))
    ELSE IF Head(s) \in {".", "[", "]"}
         THEN splitTokens(Tail(s), <<>>, IF token = <<>> THEN done ELSE Append(done, token))
         ELSE splitTokens(Tail(s), Append(token, Head(s)), done)

splitPath(s) == splitTokens(s, <<>>, <<>>)

DigitValue(c) == (CHOOSE i \in 1..Len(DigitChars) : DigitChars[i] = c) - 1

RECURSIVE digitsValue(_, _)
digitsValue(s, acc) ==
    IF s = <<>> \/ Head(s) \notin Digit THEN acc
    ELSE digitsValue(Tail(s), 10 * acc + DigitValue(Head(s)))

\* parseInt(s) as used to index an array: the leading decimal digits of the
\* text after leading whitespace, or -1 where the result is NaN or negative
parseIntIndex(s) ==
    LET lead == IF IsBlank(s) THEN Len(s) + 1
                ELSE CHOOSE i \in 1..Len(s) :
                        s[i] \notin Whitespace /\ \A j \in 1..(i - 1) : s[j] \in Whitespace
        t == SubSeq(s, lead, Len(s))
        u == IF Len(t) > 0 /\ t[1] = "+" THEN Tail(t) ELSE t
    IN  IF Len(u) > 0 /\ u[1] \in Digit THEN digitsValue(u, 0) ELSE -1

\* currentValue[segment] / currentValue[parseInt(segment)] in expandSubtree
property(value, segment) ==
    IF value.type = "array"
    THEN LET i == parseIntIndex(segment)
         IN  IF i >= 0 /\ i < Len(value.items) THEN value.items[i + 1] ELSE Undefined
    ELSE IF \E i \in 1..Len(value.entries) : value.entries[i].key = segment
         THEN value.entries[CHOOSE i \in 1..Len(value.entries) : value.entries[i].key = segment].value
         ELSE Undefined

\* the for loop of expandSubtree over pathSegments
RECURSIVE walkSegments(_, _)
walkSegments(value, pathSegments) ==
    IF pathSegments = <<>> THEN value
    ELSE IF value.type \notin {"object", "array"} THEN value
    ELSE walkSegments(property(value, Head(pathSegments)), Tail(pathSegments))

\* collectPaths(value, currentPath) inside expandSubtree: the paths it adds
RECURSIVE collectPaths(_, _)
collectPaths(value, path) ==
    IF value.type \notin {"object", "array"} THEN {}
    ELSE UNION { LET e == childEntries(value)[i]
                     childPath == IF value.type = "array" THEN path \o <<"[">> \o e.key \o <<"]">>
                                  ELSE IF path # <<>> THEN path \o <<".">> \o e.key ELSE e.key
                 IN  {childPath} \cup collectPaths(e.value, childPath)
               : i \in 1..Len(childEntries(value)) }

\* the state togglePath(path) returns
togglePathResult(expanded, collapsed, path) ==
    IF EXPAND_ALL \in expanded \/ EXPAND_TO_DEPTH_2 \in expanded
    THEN [expandedPaths |-> expanded,
          collapsedPaths |-> IF path \in collapsed THEN collapsed \ {path}
                             ELSE collapsed \cup {path}]
    ELSE [expandedPaths |-> IF path \in expanded THEN expanded \ {path}
                            ELSE expanded \cup {path},
          collapsedPaths |-> {}]

LARGE_FILE_NODES == 5000

\* expandAll() with the comparison nodeCount >= 5000
expandAllAtThreshold(meta) ==
    IF meta.present /\ meta.nodeCount # 0 /\ meta.nodeCount >= LARGE_FILE_NODES
    THEN [expandedPaths |-> {EXPAND_TO_DEPTH_2}, collapsedPaths |-> {}]
    ELSE [expandedPaths |-> {EXPAND_ALL}, collapsedPaths |-> {}]

\* the state expandAll() returns
expandAllResult(meta) ==
    IF meta.present /\ meta.nodeCount # 0 /\ meta.nodeCount > LARGE_FILE_NODES
    THEN [expandedPaths |-> {EXPAND_TO_DEPTH_2}, collapsedPaths |-> {}]
    ELSE [expandedPaths |-> {EXPAND_ALL}, collapsedPaths |-> {}]

\* the expandedPaths expandSubtree(parentPath, data) returns
expandSubtreeResult(expanded, parentPath, data) ==
    LET newPaths == ((expanded \ {EXPAND_ALL}) \ {EXPAND_TO_DEPTH_4}) \cup {parentPath}
        currentValue == walkSegments(data, splitPath(parentPath))
    IN  IF currentValue.type \in {"object", "array"}
        THEN newPaths \cup collectPaths(currentValue, parentPath)
        ELSE newPaths

-----------------------------------------------------------------------------
(* The views: visibility and expansion of a node *)

\* JsonTree / VirtualJsonTree: matchingPaths
treeMatchingPaths(data, query, format, cs) ==
    IF IsBlank(query) THEN {} ELSE getMatchingPaths(data, query, format, cs)

\* JsonTreeNode: isOnPathToMatch
isOnPathToMatch(path, matchingPaths) ==
    IF matchingPaths = {} THEN FALSE
    ELSE \E matchPath \in matchingPaths :
            \/ startsWith(matchPath, path \o <<".">>)
            \/ startsWith(matchPath, path \o <<"[">>)

\* JsonTreeNode with collapse overrides (TableView.tsx): isExpanded
isExpanded(path, pathDepth, matchingPaths, expanded, collapsed) ==
    IF path \in collapsed THEN FALSE
    ELSE IF EXPAND_ALL \in expanded THEN TRUE
    ELSE IF EXPAND_TO_DEPTH_2 \in expanded /\ pathDepth <= 2 THEN TRUE
    ELSE IF matchingPaths # {} /\ isOnPathToMatch(path, matchingPaths) THEN TRUE
    ELSE path \in expanded

\* JsonTreeNode.tsx: isExpanded
isExpandedNode(path, matchingPaths, expanded) ==
    IF EXPAND_ALL \in expanded THEN TRUE
    ELSE IF matchingPaths # {} /\ isOnPathToMatch(path, matchingPaths) THEN TRUE
    ELSE path \in expanded

\* TextView: isPathExpanded
isPathExpanded(path, expanded, localExpandedPaths) ==
    IF EXPAND_ALL \in expanded THEN TRUE
    ELSE IF EXPAND_TO_DEPTH_2 \in expanded THEN Len(splitPath(path)) <= 2
    ELSE path \in expanded \/ path \in localExpandedPaths

-----------------------------------------------------------------------------
(* Documents, queries and metadata the user can supply *)

ValueX == StringValue(<<"x">>)
ValueY == StringValue(<<"y">>)

\* {"a": {"b": "x"}, "b": ["x"]}
DocPlain ==
    ObjectValue(<<Entry(<<"a">>, ObjectValue(<<Entry(<<"b">>, ValueX)>>)),
                  Entry(<<"b">>, ArrayValue(<<ValueX>>))>>)

\* {"a": {"b-c": {"b": "x"}}}
DocEscaped ==
    ObjectValue(<<Entry(<<"a">>,
        ObjectValue(<<Entry(<<"b", "-", "c">>, ObjectValue(<<Entry(<<"b">>, ValueX)>>))>>))>>)

\* {"a": {"1": "x"}}
DocNumericKey ==
    ObjectValue(<<Entry(<<"a">>, ObjectValue(<<Entry(<<"1">>, ValueX)>>))>>)

\* [{"b": "x"}]
DocRootArray == ArrayValue(<<ObjectValue(<<Entry(<<"b">>, ValueX)>>)>>)

\* {"1": {"b": "x"}, "\"1\"": "y"}
DocQuotedKey ==
    ObjectValue(<<Entry(<<"1">>, ObjectValue(<<Entry(<<"b">>, ValueX)>>)),
                  Entry(<<"\"", "1", "\"">>, ValueY)>>)

\* {"a": "y", "a.b": "x"}
DocDottedKey ==
    ObjectValue(<<Entry(<<"a">>, ValueY), Entry(<<"a", ".", "b">>, ValueX)>>)

\* {"A": null, "b": {}}
DocNullLeaf ==
    ObjectValue(<<Entry(<<"A">>, Null), Entry(<<"b">>, ObjectValue(<<>>))>>)

\* {"__EXPAND_ALL__": {"b": "x"}}
DocSentinelKey ==
    ObjectValue(<<Entry(EXPAND_ALL, ObjectValue(<<Entry(<<"b">>, ValueX)>>))>>)

\* {"a.b": {"c": {}}}
DocDottedParent ==
    ObjectValue(<<Entry(<<"a", ".", "b">>,
        ObjectValue(<<Entry(<<"c">>, ObjectValue(<<>>))>>))>>)

Docs == {DocPlain, DocEscaped, DocNumericKey, DocRootArray, DocQuotedKey,
         DocDottedKey, DocNullLeaf, DocSentinelKey, DocDottedParent,
         ObjectValue(<<>>), ArrayValue(<<>>), ValueX}

\* the filter texts typed under the filter specification
FilterQueries == {<<>>, <<" ">>, <<"x">>, <<"X">>, <<"b">>, <<"a">>, <<"z">>, <<"u">>}

\* the filter texts typed under the expansion specification
ExpansionQueries == {<<>>, <<"x">>}

MetadataValues == {NoMetadata, Metadata(LARGE_FILE_NODES), Metadata(LARGE_FILE_NODES + 1)}

-----------------------------------------------------------------------------
(* State *)

\* the last store operation, the path it was given and the segments of the node
\* it was invoked on
Op(name, path, segments) == [op |-> name, path |-> path, segments |-> segments]

(* store/appStore.ts: the notification *)

\* copyMessage: ''
NoMessage == [kind |-> "", text |-> <<>>]

\* currentPath: null
NoPath == [present |-> FALSE, path |-> <<>>]

\* no timer callback has run
NoHide == [fired |-> FALSE, timer |-> 0, visible |-> FALSE, shown |-> 0]

(* utils/localStorage.ts: the stored text of the bookmarks *)

\* the property names of a bookmark in insertion order
BookmarkKeys == <<"id", "path", "value", "pathFormat", "type", "notes">>

\* JSON.stringify(bookmarks): the text, as the list of objects each written as
\* its name-value pairs in insertion order
stringify(list) ==
    [i \in 1..Len(list) |-> [k \in 1..Len(BookmarkKeys) |->
                                 <<BookmarkKeys[k], list[i][BookmarkKeys[k]]>>]]

\* JSON.parse(stored) as Bookmark[]: each object rebuilt from its pairs
parse(text) ==
    [i \in 1..Len(text) |->
        [name \in {text[i][k][1] : k \in 1..Len(text[i])} |->
            text[i][CHOOSE k \in 1..Len(text[i]) : text[i][k][1] = name][2]]]

\* localStorage has no item under STORAGE_KEY
NoItem == [present |-> FALSE, text |-> <<>>]

\* saveBookmarks has not been called
NotSaved == [saved |-> FALSE, list |-> <<>>]

\* loadBookmarks(): [] without an item, the parsed item otherwise
loadBookmarks(item) == IF ~item.present THEN <<>> ELSE parse(item.text)

InitStore ==
    /\ jsonData = NoData
    /\ metadata = NoMetadata
    /\ pathFormat = "jmespath"
    /\ filterQuery = <<>>
    /\ caseSensitive = FALSE
    /\ expandedPaths = {}
    /\ collapsedPaths = {}
    /\ lastOp = Op("init", <<>>, <<>>)
    /\ mountedNodes = <<>>
    /\ renderError = FALSE
    /\ shownBefore = <<>>
    /\ expandedBefore = {}
    /\ countBefore = 0
    /\ searchQuery = <<>>
    /\ searchInputValue = <<>>
    /\ searchTimer = TRUE
    /\ searchCaseSensitive = FALSE
    /\ currentSearchIndex = 0
    /\ searchMatchCount = 0
    /\ isLoading = FALSE
    /\ error = NoError
    /\ importHistory = <<>>
    /\ pendingImport = NoImport
    /\ nextId = 1
    /\ storage = NoItem
    /\ bookmarks = loadBookmarks(storage)
    /\ lastSaved = NotSaved
    /\ showCopyNotification = FALSE
    /\ copyMessage = NoMessage
    /\ selectedPath = NoPath
    /\ timers = <<>>
    /\ nextTimer = 1
    /\ shownBy = 0
    /\ lastHide = NoHide

Init ==
    /\ InitStore
    /\ pathCall = NoPathCall
    /\ matchCall = NoMatchCall

nodes == IF jsonData = NoData THEN {} ELSE treeNodes(jsonData)

matchingPaths == 
    IF jsonData = NoData THEN {}
    ELSE treeMatchingPaths(jsonData, filterQuery, pathFormat, caseSensitive)

\* JsonTreeNode: shouldShow
shouldShow(node) == shouldShowNode(currentPath(node), matchingPaths)

\* JsonTreeNode: isExpanded of a node in the current state
nodeIsExpanded(node) ==
    isExpanded(currentPath(node), Len(node.nodeSegments), matchingPaths,
               expandedPaths, collapsedPaths)

\* A JsonTreeNode returns its row when shouldShow, and is mounted by its parent
\* when the parent returned its row and is expanded; JsonTree mounts the root entries.
isRendered(node) ==
    /\ shouldShow(node)
    /\ \A a \in nodes : isProperAncestor(a, node) => shouldShow(a) /\ nodeIsExpanded(a)

-----------------------------------------------------------------------------
(* Operations *)

\* App: handleFileUpload / handlePasteFromClipboard / handleFetchFromUrl on a
\* document that parses, offered by EmptyState while no document is loaded:
\* setJsonData(data)
setJsonData(data) ==
    /\ jsonData = NoData
    /\ jsonData' = data
    /\ lastOp' = Op("setJsonData", <<>>, <<>>)
    /\ UNCHANGED <<metadata, pathFormat, filterQuery, caseSensitive,
                   expandedPaths, collapsedPaths>>
    /\ UNCHANGED <<treeVars, pureVars, sessionVars>>

setMetadata(m) ==
    /\ metadata' = m
    /\ lastOp' = Op("setMetadata", <<>>, <<>>)
    /\ UNCHANGED <<jsonData, pathFormat, filterQuery, caseSensitive,
                   expandedPaths, collapsedPaths>>
    /\ UNCHANGED <<treeVars, pureVars, sessionVars>>

clearJsonData ==
    /\ jsonData' = NoData
    /\ metadata' = NoMetadata
    /\ filterQuery' = <<>>
    /\ expandedPaths' = {}
    /\ collapsedPaths' = {}
    /\ searchQuery' = <<>>
    /\ lastOp' = Op("clearJsonData", <<>>, <<>>)
    /\ UNCHANGED <<pathFormat, caseSensitive>>
    /\ UNCHANGED <<searchInputValue, searchTimer, searchCaseSensitive,
                   currentSearchIndex, searchMatchCount>>
    /\ error' = NoError
    /\ UNCHANGED <<isLoading, importHistory, pendingImport, nextId>>
    /\ selectedPath' = NoPath
    /\ UNCHANGED <<showCopyNotification, copyMessage, timers, nextTimer,
                   shownBy, lastHide>>
    /\ UNCHANGED bookmarkVars
    /\ UNCHANGED <<treeVars, pureVars>>

setFilterQuery(query) ==
    /\ filterQuery' = query
    /\ lastOp' = Op("setFilterQuery", <<>>, <<>>)
    /\ UNCHANGED <<jsonData, metadata, pathFormat, caseSensitive,
                   expandedPaths, collapsedPaths>>
    /\ UNCHANGED <<treeVars, pureVars, sessionVars>>

toggleCaseSensitive ==
    /\ caseSensitive' = ~caseSensitive
    /\ lastOp' = Op("toggleCaseSensitive", <<>>, <<>>)
    /\ UNCHANGED <<jsonData, metadata, pathFormat, filterQuery,
                   expandedPaths, collapsedPaths>>
    /\ UNCHANGED <<treeVars, pureVars, sessionVars>>

setPathFormat(format) ==
    /\ pathFormat' = format
    /\ lastOp' = Op("setPathFormat", <<>>, <<>>)
    /\ UNCHANGED <<jsonData, metadata, filterQuery, caseSensitive,
                   expandedPaths, collapsedPaths>>
    /\ UNCHANGED <<treeVars, pureVars, sessionVars>>

\* JsonTreeNode handleToggle of a rendered node: togglePath(currentPath)
togglePath(node) ==
    /\ isRendered(node)
    /\ isExpandable(node.value)
    /\ LET r == togglePathResult(expandedPaths, collapsedPaths, currentPath(node))
       IN  /\ expandedPaths' = r.expandedPaths
           /\ collapsedPaths' = r.collapsedPaths
    /\ lastOp' = Op("togglePath", currentPath(node), node.segments)
    /\ UNCHANGED <<jsonData, metadata, pathFormat, filterQuery, caseSensitive>>
    /\ UNCHANGED <<treeVars, pureVars, sessionVars>>

expandAll ==
    /\ expandedPaths' = expandAllResult(metadata).expandedPaths
    /\ collapsedPaths' = expandAllResult(metadata).collapsedPaths
    /\ lastOp' = Op("expandAll", <<>>, <<>>)
    /\ UNCHANGED <<jsonData, metadata, pathFormat, filterQuery, caseSensitive>>
    /\ UNCHANGED <<treeVars, pureVars, sessionVars>>

\* collapseAll() that keeps the collapsed overrides
collapseAllKeepingOverrides ==
    /\ expandedPaths' = {}
    /\ lastOp' = Op("collapseAll", <<>>, <<>>)
    /\ UNCHANGED <<jsonData, metadata, pathFormat, filterQuery, caseSensitive,
                   collapsedPaths>>
    /\ UNCHANGED <<treeVars, pureVars, sessionVars>>

collapseAll ==
    /\ expandedPaths' = {}
    /\ collapsedPaths' = {}
    /\ lastOp' = Op("collapseAll", <<>>, <<>>)
    /\ UNCHANGED <<jsonData, metadata, pathFormat, filterQuery, caseSensitive>>
    /\ UNCHANGED <<treeVars, pureVars, sessionVars>>

\* JsonTreeNode handleExpandSubtree of a rendered node: expandSubtree(currentPath, jsonData)
expandSubtree(node) ==
    /\ isRendered(node)
    /\ isExpandable(node.value)
    /\ expandedPaths' = expandSubtreeResult(expandedPaths, currentPath(node), jsonData)
    /\ lastOp' = Op("expandSubtree", currentPath(node), node.segments)
    /\ UNCHANGED <<jsonData, metadata, pathFormat, filterQuery, caseSensitive,
                   collapsedPaths>>
    /\ UNCHANGED <<treeVars, pureVars, sessionVars>>

\* The expansion state machine with the document and one filter text
Next ==
    \/ \E data \in Docs : setJsonData(data)
    \/ \E m \in MetadataValues : setMetadata(m)
    \/ clearJsonData
    \/ \E query \in ExpansionQueries : setFilterQuery(query)
    \/ \E node \in nodes : togglePath(node)
    \/ expandAll
    \/ collapseAll
    \/ \E node \in nodes : expandSubtree(node)

Spec == Init /\ [][Next]_vars

\* The filter engine under every query, path format and case sensitivity
NextFilter ==
    \/ \E data \in Docs : setJsonData(data)
    \/ clearJsonData
    \/ \E query \in FilterQueries : setFilterQuery(query)
    \/ \E format \in PathFormats : setPathFormat(format)
    \/ toggleCaseSensitive

SpecFilter == Init /\ [][NextFilter]_vars

-----------------------------------------------------------------------------
(* components/TableView.tsx JsonTreeNode: the mounted components and their     *)
(* displayedCount state.  mountedNodes maps the currentSegments of a mounted    *)
(* component to the shouldShow of its last render and its displayedCount.       *)

LAZY_LOAD_THRESHOLD == 100

LAZY_LOAD_BATCH_SIZE == 50

Min(a, b) == IF a <= b THEN a ELSE b

Max(a, b) == IF a >= b THEN a ELSE b

\* totalChildren = childEntries.length, childEntries = getChildEntries():
\* the items of an array, otherwise Object.entries(value)
totalChildren(value) ==
    IF value.type = "string" THEN Len(value.text) ELSE Len(childEntries(value))

requiresPagination(value) == totalChildren(value) > LAZY_LOAD_THRESHOLD

\* the initial state of useState and the value the reset sets
initialDisplayedCount(value) ==
    IF requiresPagination(value) THEN LAZY_LOAD_BATCH_SIZE ELSE totalChildren(value)

\* displayedCount that never goes back to the initial batch
keptDisplayedCount(value, hadState, expanded, previous) ==
    IF hadState THEN previous ELSE initialDisplayedCount(value)

\* displayedCount after a render: the useState initial value on the first render
\* that reaches the hook, the reset of the useMemo when the node is not
\* expanded, otherwise the state kept from the previous render
renderedDisplayedCount(value, hadState, expanded, previous) ==
    IF hadState /\ expanded THEN previous ELSE initialDisplayedCount(value)

\* handleLoadMore: Math.min(prev + LAZY_LOAD_BATCH_SIZE, totalChildren)
\* handleLoadMore without the cap at totalChildren
loadMoreUncapped(value, previous) == previous + LAZY_LOAD_BATCH_SIZE

loadMoreCount(value, previous) ==
    Min(previous + LAZY_LOAD_BATCH_SIZE, totalChildren(value))

\* One render pass of a JsonTreeNode and of the children it returns: the set of
\* [key, shouldShow, displayedCount, error] of the components mounted after it.
\* error: the render throws, because the early return on !shouldShow changed the
\* number of hooks called since the previous render of this component, or
\* because Object.entries is applied to null.
RECURSIVE renderNode(_, _, _, _, _, _, _)
renderNode(nodeKey, value, pathSegments, matching, expanded, collapsed, previous) ==
    LET segs == currentSegments(pathSegments, nodeKey)
        path == generatePath(segs, "jmespath")
        shown == shouldShowNode(path, matching)
        prior == segs \in DOMAIN previous
        hooksChanged == prior /\ previous[segs].shouldShow # shown
    IN  IF ~shown
        THEN {[key |-> segs, shouldShow |-> FALSE, displayedCount |-> 0,
               error |-> hooksChanged]}
        ELSE LET open == isExpanded(path, Len(segs), matching, expanded, collapsed)
                 hadState == prior /\ previous[segs].shouldShow
                 count == renderedDisplayedCount(value, hadState, open,
                              IF hadState THEN previous[segs].displayedCount ELSE 0)
                 entries == childEntries(value)
             IN  {[key |-> segs, shouldShow |-> TRUE, displayedCount |-> count,
                   error |-> hooksChanged \/ value.type = "null"]}
                 \cup (IF isExpandable(value) /\ open
                       THEN UNION { renderNode(entries[i].key, entries[i].value, segs,
                                               matching, expanded, collapsed, previous)
                                  : i \in 1..Min(count, Len(entries)) }
                       ELSE {})

\* JsonTree: one JsonTreeNode per root entry of an object or array
renderTree(data, matching, expanded, collapsed, previous) ==
    IF data = NoData \/ ~isExpandable(data) THEN {}
    ELSE UNION { renderNode(childEntries(data)[i].key, childEntries(data)[i].value, <<>>,
                            matching, expanded, collapsed, previous)
               : i \in 1..Len(childEntries(data)) }

\* the components mounted after the render, none once a render has thrown
mountedAfter(rendered) ==
    IF \E r \in rendered : r.error THEN <<>>
    ELSE [k \in {r.key : r \in rendered} |->
            LET r == CHOOSE e \in rendered : e.key = k
            IN  [shouldShow |-> r.shouldShow, displayedCount |-> r.displayedCount]]

\* the node's component returned its row in the last render
isDisplayed(node, mounted) ==
    node.nodeSegments \in DOMAIN mounted /\ mounted[node.nodeSegments].shouldShow

\* isExpanded of the node's component under the given store state
expandedFlag(node, matching, expanded, collapsed) ==
    isExpanded(currentPath(node), Len(node.nodeSegments), matching, expanded, collapsed)

\* the expandable nodes below a value, as nodesBelow describes them
RECURSIVE containersBelow(_, _, _)
containersBelow(value, segments, nodeSegments) ==
    LET entries == childEntries(value)
    IN  UNION { IF isExpandable(entries[i].value)
                THEN LET child == [segments |-> Append(segments, childSegment(value, i)),
                                   nodeSegments |-> currentSegments(nodeSegments, entries[i].key),
                                   value |-> entries[i].value]
                     IN  {child} \cup containersBelow(child.value, child.segments,
                                                       child.nodeSegments)
                ELSE {}
              : i \in 1..Len(entries) }

\* History: for every expandable node, the largest displayedCount it has had
\* since its isExpanded was last false (0 when there is none).
shownHistory(current, data, matching, expanded, collapsed) ==
    [k \in {n.nodeSegments : n \in containersBelow(data, <<>>, <<>>)} |->
        LET n == CHOOSE m \in containersBelow(data, <<>>, <<>>) : m.nodeSegments = k
        IN  IF /\ data = jsonData
               /\ expandedFlag(n, current, expandedPaths, collapsedPaths)
               /\ expandedFlag(n, matching, expanded, collapsed)
            THEN Max(IF k \in DOMAIN shownBefore THEN shownBefore[k] ELSE 0,
                     IF isDisplayed(n, mountedNodes) THEN mountedNodes[k].displayedCount ELSE 0)
            ELSE 0]

\* History: the currentSegments of the expandable nodes that are displayed
\* expanded in the state the handler starts from
expandedHistory(current) ==
    IF jsonData = NoData THEN {}
    ELSE {n.nodeSegments : n \in
            {m \in containersBelow(jsonData, <<>>, <<>>) :
                /\ isDisplayed(m, mountedNodes)
                /\ expandedFlag(m, current, expandedPaths, collapsedPaths)}}

\* the re-render every store update causes (useAppStore subscribes each
\* component to the whole store), starting from the component state `previous`
rerender(previous) ==
    \E current \in {matchingPaths} :
    \E matching \in {IF jsonData' = NoData THEN {}
                     ELSE treeMatchingPaths(jsonData', filterQuery', pathFormat', caseSensitive')} :
    \E before \in {previous} :
    \E rendered \in {renderTree(jsonData', matching, expandedPaths', collapsedPaths', before)} :
        /\ mountedNodes' = mountedAfter(rendered)
        /\ renderError' = \E r \in rendered : r.error
        /\ shownBefore' = IF jsonData' = NoData THEN <<>>
                          ELSE shownHistory(current, jsonData', matching,
                                            expandedPaths', collapsedPaths')
        /\ expandedBefore' = expandedHistory(current)
        /\ countBefore' = IF lastOp'.op \in {"handleLoadMore", "handleLoadAll"}
                          THEN mountedNodes[lastOp'.segments].displayedCount
                          ELSE 0

----------------------------------------------------------------
(* The tree view: the handlers of JsonTreeNode and of the toolbar, each with   *)
(* the re-render that follows the store update                                 *)

\* the numbers of children of the paginated node
ChildCounts == {2, 100, 101, 120}

\* {"p": {"a": ["x", "y", ..., "y"]}} with n items
WideDoc(n) ==
    ObjectValue(<<Entry(<<"p">>,
        ObjectValue(<<Entry(<<"a">>,
            ArrayValue([i \in 1..n |-> IF i = 1 THEN ValueX ELSE ValueY]))>>))>>)

\* {"p": {"a": null}}
DocNullChild == ObjectValue(<<Entry(<<"p">>, ObjectValue(<<Entry(<<"a">>, Null)>>))>>)

TreeDocs == {WideDoc(n) : n \in ChildCounts} \cup {DocNullChild}

\* the filter texts typed under the tree specification
TreeQueries == {<<>>, <<"x">>}

\* App: setJsonData(data) from EmptyState, then JsonTree mounts
loadJson(data) ==
    /\ ~renderError
    /\ jsonData = NoData
    /\ jsonData' = data
    /\ lastOp' = Op("loadJson", <<>>, <<>>)
    /\ UNCHANGED <<metadata, pathFormat, filterQuery, caseSensitive,
                   expandedPaths, collapsedPaths>>
    /\ UNCHANGED <<pureVars, sessionVars>>
    /\ rerender(<<>>)

\* ActionsToolbar: onClick={clearJsonData}
handleClear ==
    /\ ~renderError
    /\ jsonData # NoData
    /\ jsonData' = NoData
    /\ metadata' = NoMetadata
    /\ filterQuery' = <<>>
    /\ expandedPaths' = {}
    /\ collapsedPaths' = {}
    /\ searchQuery' = <<>>
    /\ lastOp' = Op("handleClear", <<>>, <<>>)
    /\ UNCHANGED <<pathFormat, caseSensitive>>
    /\ UNCHANGED <<searchInputValue, searchTimer, searchCaseSensitive,
                   currentSearchIndex, searchMatchCount>>
    /\ error' = NoError
    /\ UNCHANGED <<isLoading, importHistory, pendingImport, nextId>>
    /\ selectedPath' = NoPath
    /\ UNCHANGED <<showCopyNotification, copyMessage, timers, nextTimer,
                   shownBy, lastHide>>
    /\ UNCHANGED bookmarkVars
    /\ UNCHANGED pureVars
    /\ rerender(<<>>)

\* ActionsToolbar: the filter input, setFilterQuery(query)
handleFilterChange(query) ==
    /\ ~renderError
    /\ jsonData # NoData
    /\ filterQuery' = query
    /\ lastOp' = Op("handleFilterChange", <<>>, <<>>)
    /\ UNCHANGED <<jsonData, metadata, pathFormat, caseSensitive,
                   expandedPaths, collapsedPaths>>
    /\ UNCHANGED <<pureVars, sessionVars>>
    /\ rerender(mountedNodes)

\* JsonTreeNode: handleToggle, togglePath(currentPath)
handleToggle(node) ==
    /\ ~renderError
    /\ isDisplayed(node, mountedNodes)
    /\ isExpandable(node.value)
    /\ LET r == togglePathResult(expandedPaths, collapsedPaths, currentPath(node))
       IN  /\ expandedPaths' = r.expandedPaths
           /\ collapsedPaths' = r.collapsedPaths
    /\ lastOp' = Op("handleToggle", currentPath(node), node.nodeSegments)
    /\ UNCHANGED <<jsonData, metadata, pathFormat, filterQuery, caseSensitive>>
    /\ UNCHANGED <<pureVars, sessionVars>>
    /\ rerender(mountedNodes)

\* ActionsToolbar: onClick={expandAll}
handleExpandAll ==
    /\ ~renderError
    /\ jsonData # NoData
    /\ expandedPaths' = expandAllResult(metadata).expandedPaths
    /\ collapsedPaths' = expandAllResult(metadata).collapsedPaths
    /\ lastOp' = Op("handleExpandAll", <<>>, <<>>)
    /\ UNCHANGED <<jsonData, metadata, pathFormat, filterQuery, caseSensitive>>
    /\ UNCHANGED <<pureVars, sessionVars>>
    /\ rerender(mountedNodes)

\* ActionsToolbar: onClick={collapseAll}
handleCollapseAll ==
    /\ ~renderError
    /\ jsonData # NoData
    /\ expandedPaths' = {}
    /\ collapsedPaths' = {}
    /\ lastOp' = Op("handleCollapseAll", <<>>, <<>>)
    /\ UNCHANGED <<jsonData, metadata, pathFormat, filterQuery, caseSensitive>>
    /\ UNCHANGED <<pureVars, sessionVars>>
    /\ rerender(mountedNodes)

\* the load-more controls of a node are rendered: isExpandable && isExpanded && hasMore
hasMore(node) ==
    /\ isDisplayed(node, mountedNodes)
    /\ isExpandable(node.value)
    /\ mountedNodes[node.nodeSegments].displayedCount < totalChildren(node.value)
    /\ \E current \in {matchingPaths} :
          expandedFlag(node, current, expandedPaths, collapsedPaths)

\* remainingCount = totalChildren - displayedCount
remainingCount(node) ==
    totalChildren(node.value) - mountedNodes[node.nodeSegments].displayedCount

\* JsonTreeNode: handleLoadMore
handleLoadMore(node) ==
    /\ ~renderError
    /\ hasMore(node)
    /\ lastOp' = Op("handleLoadMore", currentPath(node), node.nodeSegments)
    /\ UNCHANGED <<jsonData, metadata, pathFormat, filterQuery, caseSensitive,
                   expandedPaths, collapsedPaths>>
    /\ UNCHANGED <<pureVars, sessionVars>>
    /\ rerender([mountedNodes EXCEPT ![node.nodeSegments].displayedCount =
                    loadMoreCount(node.value, @)])

\* JsonTreeNode: handleLoadAll
handleLoadAll(node) ==
    /\ ~renderError
    /\ hasMore(node)
    /\ lastOp' = Op("handleLoadAll", currentPath(node), node.nodeSegments)
    /\ UNCHANGED <<jsonData, metadata, pathFormat, filterQuery, caseSensitive,
                   expandedPaths, collapsedPaths>>
    /\ UNCHANGED <<pureVars, sessionVars>>
    /\ rerender([mountedNodes EXCEPT ![node.nodeSegments].displayedCount =
                    totalChildren(node.value)])

\* the expandable nodes of the document
expandableNodes ==
    IF jsonData = NoData THEN {} ELSE containersBelow(jsonData, <<>>, <<>>)

NextTree ==
    \/ \E data \in TreeDocs : loadJson(data)
    \/ handleClear
    \/ \E query \in TreeQueries : handleFilterChange(query)
    \/ \E node \in expandableNodes : handleToggle(node)
    \/ handleExpandAll
    \/ handleCollapseAll
    \/ \E node \in expandableNodes : handleLoadMore(node)
    \/ \E node \in expandableNodes : handleLoadAll(node)

SpecTree == Init /\ [][NextTree]_vars

-----------------------------------------------------------------------------
(* The path serializer and parser as pure functions: generatePath applied to  *)
(* every bounded path in every format, and parsePath applied to its result    *)

\* the longest path serialized
MaxSegments == 3

\* object keys: plain, with a dash, purely numeric, with a leading double
\* quote, with an apostrophe, with a double quote and a dash, with a space, empty
PathKeys ==
    {<<"a">>, <<"b", "-", "c">>, <<"1">>, <<"\"", "a">>, <<"a", "'", "b">>,
     <<"a", "\"", "-">>, <<"a", " ">>, <<>>}

\* array indices
PathIndices == {0, 12}

PathSegments ==
    {Segment(key, FALSE) : key \in PathKeys}
        \cup {Segment(IndexString(i), TRUE) : i \in PathIndices}

PathInputs == UNION {[1..n -> PathSegments] : n \in 0..MaxSegments}

\* a path and a format chosen, nothing computed yet
PathCall(segments, format) ==
    [op |-> "input", segments |-> segments, format |-> format,
     path |-> <<>>, parsed |-> <<>>]

InitPath ==
    /\ InitStore
    /\ matchCall = NoMatchCall
    /\ pathCall \in {PathCall(segments, format) : segments \in PathInputs,
                                                  format \in PathFormats}

\* path = generatePath(segments, format)
callGeneratePath ==
    /\ pathCall.op = "input"
    /\ pathCall' = [pathCall EXCEPT !.op = "generatePath",
                                    !.path = generatePath(pathCall.segments, pathCall.format)]
    /\ UNCHANGED <<storeVars, treeVars, matchVars, sessionVars>>

\* parsed = parsePath(path)
callParsePath ==
    /\ pathCall.op = "generatePath"
    /\ pathCall' = [pathCall EXCEPT !.op = "parsePath",
                                    !.parsed = parsePath(pathCall.path)]
    /\ UNCHANGED <<storeVars, treeVars, matchVars, sessionVars>>

NextPath ==
    \/ callGeneratePath
    \/ callParsePath

SpecPath == InitPath /\ [][NextPath]_vars

-----------------------------------------------------------------------------
(* Search: the store's search state, the toolbar's debounced input and its    *)
(* effects (ActionsToolbar.tsx)                                               *)

\* utils/searchMatches findSearchMatches: one match per node whose key
\* contains the query and one per leaf whose stringified value contains it
findSearchMatches(data, query, format, cs) ==
    {[path |-> generatePath(n.segments, format), segments |-> n.segments, matchType |-> "key"] :
        n \in {m \in treeNodes(data) : matches(m.segments[Len(m.segments)].key, query, cs)}}
    \cup
    {[path |-> generatePath(n.segments, format), segments |-> n.segments, matchType |-> "value"] :
        n \in {m \in treeNodes(data) \cup {[segments |-> <<>>, nodeSegments |-> <<>>, value |-> data]} :
                  /\ ~isExpandable(m.value)
                  /\ matches(IF m.value.type = "null" THEN <<"n", "u", "l", "l">>
                             ELSE m.value.text, query, cs)}}

\* the effects of ActionsToolbar after a store update: the input is emptied
\* when searchQuery has become '', a change of the input restarts the debounce
\* timer, and setSearchMatchCount(searchMatches.length)
toolbarEffects(inputValue, timer) ==
    /\ searchInputValue' = IF searchQuery' = <<>> /\ searchQuery # <<>> THEN <<>> ELSE inputValue
    /\ searchTimer' = (timer \/ searchInputValue' # searchInputValue)
    /\ searchMatchCount' =
          IF jsonData' = NoData \/ IsBlank(searchQuery') THEN 0
          ELSE Cardinality(findSearchMatches(jsonData', searchQuery', pathFormat',
                                             searchCaseSensitive'))

\* the search texts typed
SearchQueries == {<<>>, <<"x">>, <<"b">>, <<"B">>}

SearchDocs == {DocPlain, DocNullLeaf, ObjectValue(<<>>)}

\* the search input: onChange, setSearchInputValue(text)
handleSearchInput(text) ==
    /\ text # searchInputValue
    /\ lastOp' = Op("handleSearchInput", <<>>, <<>>)
    /\ UNCHANGED <<jsonData, metadata, pathFormat, filterQuery, caseSensitive,
                   expandedPaths, collapsedPaths>>
    /\ UNCHANGED <<searchQuery, searchCaseSensitive, currentSearchIndex>>
    /\ toolbarEffects(text, searchTimer)
    /\ UNCHANGED <<treeVars, pureVars, importVars, sideVars>>

\* the debounce timer fires: setSearchQuery(searchInputValue)
searchDebounce ==
    /\ searchTimer
    /\ searchQuery' = searchInputValue
    /\ currentSearchIndex' = 0
    /\ lastOp' = Op("setSearchQuery", <<>>, <<>>)
    /\ UNCHANGED <<jsonData, metadata, pathFormat, filterQuery, caseSensitive,
                   expandedPaths, collapsedPaths>>
    /\ UNCHANGED searchCaseSensitive
    /\ toolbarEffects(searchInputValue, FALSE)
    /\ UNCHANGED <<treeVars, pureVars, importVars, sideVars>>

\* the X button of the search input: setSearchInputValue(''), setSearchQuery('')
handleClearSearch ==
    /\ searchInputValue # <<>>
    /\ searchQuery' = <<>>
    /\ currentSearchIndex' = 0
    /\ lastOp' = Op("setSearchQuery", <<>>, <<>>)
    /\ UNCHANGED <<jsonData, metadata, pathFormat, filterQuery, caseSensitive,
                   expandedPaths, collapsedPaths>>
    /\ UNCHANGED searchCaseSensitive
    /\ toolbarEffects(<<>>, searchTimer)
    /\ UNCHANGED <<treeVars, pureVars, importVars, sideVars>>

\* onClick={toggleSearchCaseSensitive}
toggleSearchCaseSensitive ==
    /\ searchCaseSensitive' = ~searchCaseSensitive
    /\ currentSearchIndex' = 0
    /\ lastOp' = Op("toggleSearchCaseSensitive", <<>>, <<>>)
    /\ UNCHANGED <<jsonData, metadata, pathFormat, filterQuery, caseSensitive,
                   expandedPaths, collapsedPaths>>
    /\ UNCHANGED searchQuery
    /\ toolbarEffects(searchInputValue, searchTimer)
    /\ UNCHANGED <<treeVars, pureVars, importVars, sideVars>>

\* handleNextMatch, offered while searchQuery is not empty
handleNextMatch ==
    /\ searchQuery # <<>>
    /\ searchMatchCount > 0
    /\ currentSearchIndex' = (currentSearchIndex + 1) % searchMatchCount
    /\ lastOp' = Op("handleNextMatch", <<>>, <<>>)
    /\ UNCHANGED <<jsonData, metadata, pathFormat, filterQuery, caseSensitive,
                   expandedPaths, collapsedPaths>>
    /\ UNCHANGED <<searchQuery, searchCaseSensitive>>
    /\ toolbarEffects(searchInputValue, searchTimer)
    /\ UNCHANGED <<treeVars, pureVars, importVars, sideVars>>

\* handlePrevMatch, offered while searchQuery is not empty
handlePrevMatch ==
    /\ searchQuery # <<>>
    /\ searchMatchCount > 0
    /\ currentSearchIndex' = (currentSearchIndex - 1 + searchMatchCount) % searchMatchCount
    /\ lastOp' = Op("handlePrevMatch", <<>>, <<>>)
    /\ UNCHANGED <<jsonData, metadata, pathFormat, filterQuery, caseSensitive,
                   expandedPaths, collapsedPaths>>
    /\ UNCHANGED <<searchQuery, searchCaseSensitive>>
    /\ toolbarEffects(searchInputValue, searchTimer)
    /\ UNCHANGED <<treeVars, pureVars, importVars, sideVars>>

\* App: setJsonData(data) from EmptyState, with the toolbar mounted
loadDocument(data) ==
    /\ jsonData = NoData
    /\ jsonData' = data
    /\ lastOp' = Op("setJsonData", <<>>, <<>>)
    /\ UNCHANGED <<metadata, pathFormat, filterQuery, caseSensitive,
                   expandedPaths, collapsedPaths>>
    /\ UNCHANGED <<searchQuery, searchCaseSensitive, currentSearchIndex>>
    /\ toolbarEffects(searchInputValue, searchTimer)
    /\ UNCHANGED <<treeVars, pureVars, importVars, sideVars>>

\* ActionsToolbar: onClick={clearJsonData}, with the toolbar mounted
clearDocument ==
    /\ jsonData # NoData
    /\ jsonData' = NoData
    /\ metadata' = NoMetadata
    /\ filterQuery' = <<>>
    /\ searchQuery' = <<>>
    /\ expandedPaths' = {}
    /\ collapsedPaths' = {}
    /\ lastOp' = Op("clearJsonData", <<>>, <<>>)
    /\ UNCHANGED <<pathFormat, caseSensitive>>
    /\ UNCHANGED <<searchCaseSensitive, currentSearchIndex>>
    /\ toolbarEffects(searchInputValue, searchTimer)
    /\ error' = NoError
    /\ UNCHANGED <<isLoading, importHistory, pendingImport, nextId>>
    /\ selectedPath' = NoPath
    /\ UNCHANGED <<showCopyNotification, copyMessage, timers, nextTimer,
                   shownBy, lastHide>>
    /\ UNCHANGED bookmarkVars
    /\ UNCHANGED <<treeVars, pureVars>>

NextSearch ==
    \/ \E text \in SearchQueries : handleSearchInput(text)
    \/ searchDebounce
    \/ handleClearSearch
    \/ toggleSearchCaseSensitive
    \/ handleNextMatch
    \/ handlePrevMatch
    \/ \E data \in SearchDocs : loadDocument(data)
    \/ clearDocument

SpecSearch == Init /\ [][NextSearch]_vars

-----------------------------------------------------------------------------
(* Import: handleFileUpload, handlePasteFromClipboard, handleFetchFromUrl of  *)
(* App and the import history of the store                                    *)

\* the number of entries importHistory keeps besides the new one: slice(0, 9)
HISTORY_KEPT == 9

\* addToHistory(item) that keeps every earlier entry
addToHistoryUnbounded(history, item) == <<item>> \o history

\* addToHistory(item): the new importHistory
addToHistoryResult(history, item) ==
    <<item>> \o SubSeq(history, 1, Min(HISTORY_KEPT, Len(history)))

\* a history entry: the source and the id crypto.randomUUID() gave it
HistoryItem(source, id) == [source |-> source, id |-> id]

\* the outcome of await file.text() / readText() / fetch followed by JSON.parse:
\* a value, or the exception thrown
Parsed(value) == [ok |-> TRUE, value |-> value]
ParseError == [ok |-> FALSE, value |-> [type |-> "none"]]

\* the error message of the exception caught
ErrorMessage == [message |-> "error"]

\* setJsonData(data): jsonData is null both for no document and for the value null
storedData(value) == IF value = Null THEN NoData ELSE value

\* try/catch of an import handler that records the import also when it failed
importResultRecording(outcome, data, history, item) ==
    IF outcome.ok
    THEN [jsonData |-> storedData(outcome.value),
          importHistory |-> addToHistoryResult(history, item), error |-> NoError]
    ELSE [jsonData |-> data, importHistory |-> addToHistoryResult(history, item),
          error |-> ErrorMessage]

\* the try/catch of an import handler, entered with error null: jsonData,
\* importHistory and error after it
importResult(outcome, data, history, item) ==
    IF outcome.ok
    THEN [jsonData |-> storedData(outcome.value),
          importHistory |-> addToHistoryResult(history, item), error |-> NoError]
    ELSE [jsonData |-> data, importHistory |-> history, error |-> ErrorMessage]

\* the sources of an import
ImportSources == {"file", "clipboard", "url"}

\* what reading and parsing the source gives
ImportOutcomes == {Parsed(DocPlain), Parsed(DocRootArray), Parsed(Null), ParseError}

\* the imports started in one behaviour
MaxImports == 3

\* EmptyState is rendered: !isLoading, !error, !jsonData
emptyStateShown == ~isLoading /\ error = NoError /\ jsonData = NoData

\* an import handler up to its first await: setIsLoading(true), setError(null)
importStart(source, outcome) ==
    /\ emptyStateShown
    /\ nextId <= MaxImports
    /\ isLoading' = TRUE
    /\ error' = NoError
    /\ pendingImport' = [source |-> source, outcome |-> outcome, active |-> TRUE]
    /\ lastOp' = Op("importStart", <<>>, <<>>)
    /\ UNCHANGED <<jsonData, metadata, pathFormat, filterQuery, caseSensitive,
                   expandedPaths, collapsedPaths>>
    /\ UNCHANGED <<importHistory, nextId>>
    /\ UNCHANGED <<treeVars, pureVars, searchVars, sideVars>>

\* the rest of the handler: JSON.parse, setJsonData and addToHistory or
\* setError, and setIsLoading(false) in the finally block
importFinish ==
    /\ pendingImport.active
    /\ \E r \in {importResult(pendingImport.outcome, jsonData, importHistory,
                               HistoryItem(pendingImport.source, nextId))} :
          /\ jsonData' = r.jsonData
          /\ importHistory' = r.importHistory
          /\ error' = r.error
    /\ isLoading' = FALSE
    /\ pendingImport' = [pendingImport EXCEPT !.active = FALSE]
    /\ nextId' = nextId + 1
    /\ lastOp' = Op(IF pendingImport.outcome.ok THEN "importSucceeded" ELSE "importFailed",
                    <<>>, <<>>)
    /\ UNCHANGED <<metadata, pathFormat, filterQuery, caseSensitive,
                   expandedPaths, collapsedPaths>>
    /\ UNCHANGED <<treeVars, pureVars, searchVars, sideVars>>

\* the Try Again button of the error panel: setError(null)
handleTryAgain ==
    /\ ~isLoading
    /\ error # NoError
    /\ error' = NoError
    /\ lastOp' = Op("setError", <<>>, <<>>)
    /\ UNCHANGED <<jsonData, metadata, pathFormat, filterQuery, caseSensitive,
                   expandedPaths, collapsedPaths>>
    /\ UNCHANGED <<isLoading, importHistory, pendingImport, nextId>>
    /\ UNCHANGED <<treeVars, pureVars, searchVars, sideVars>>

NextImport ==
    \/ \E source \in ImportSources, outcome \in ImportOutcomes : importStart(source, outcome)
    \/ importFinish
    \/ handleTryAgain
    \/ clearDocument

SpecImport == Init /\ [][NextImport]_vars

-----------------------------------------------------------------------------
(* Bookmarks: the bookmark operations of the store and utils/localStorage.ts  *)

\* the bookmarks added in one behaviour
MaxBookmarks == 2

\* the paths and values bookmarked, and the texts typed into a cell
BookmarkPaths == {<<"a">>}

BookmarkValues == {ValueX, Null}

CellTexts == {<<"n">>}

\* the fields of a Bookmark the table edits
BookmarkFields == {"notes"}

\* the new bookmark of addBookmark
Bookmark(id, path, value, format) ==
    [id |-> id, path |-> path, value |-> value, pathFormat |-> format,
     type |-> getJsonType(value), notes |-> <<>>]

\* saveBookmarks(list): localStorage.setItem stores the text, or throws (quota
\* exceeded, storage not available) and the catch block only logs
saveBookmarks(list) ==
    /\ \E stored \in BOOLEAN :
          storage' = IF stored THEN [present |-> TRUE, text |-> stringify(list)] ELSE storage
    /\ lastSaved' = [saved |-> TRUE, list |-> list]

\* array after splice(startIndex, 1) and splice(endIndex, 0, removed), 0-based
reordered(list, startIndex, endIndex) ==
    LET removed == list[startIndex + 1]
        rest == SubSeq(list, 1, startIndex) \o SubSeq(list, startIndex + 2, Len(list))
    IN  SubSeq(rest, 1, endIndex) \o <<removed>> \o SubSeq(rest, endIndex + 1, Len(rest))

\* what a bookmark operation leaves alone
bookmarkFrame ==
    /\ UNCHANGED <<jsonData, metadata, pathFormat, filterQuery, caseSensitive,
                   expandedPaths, collapsedPaths>>
    /\ UNCHANGED <<isLoading, error, importHistory, pendingImport>>
    /\ UNCHANGED <<treeVars, pureVars, searchVars, notificationVars>>

addBookmark(path, value, format) ==
    /\ nextId <= MaxBookmarks
    /\ bookmarks' = Append(bookmarks, Bookmark(nextId, path, value, format))
    /\ saveBookmarks(bookmarks')
    /\ nextId' = nextId + 1
    /\ lastOp' = Op("addBookmark", path, <<>>)
    /\ bookmarkFrame

\* updateBookmark(id, {[field]: text})
updateBookmark(id, field, text) ==
    /\ bookmarks' = [i \in 1..Len(bookmarks) |->
                        IF bookmarks[i].id = id THEN [bookmarks[i] EXCEPT ![field] = text]
                        ELSE bookmarks[i]]
    /\ saveBookmarks(bookmarks')
    /\ lastOp' = Op("updateBookmark", <<>>, <<>>)
    /\ UNCHANGED nextId
    /\ bookmarkFrame

removeBookmark(id) ==
    /\ bookmarks' = SelectSeq(bookmarks, LAMBDA b : b.id # id)
    /\ saveBookmarks(bookmarks')
    /\ lastOp' = Op("removeBookmark", <<>>, <<>>)
    /\ UNCHANGED nextId
    /\ bookmarkFrame

\* BookmarksTable handleDrop: reorderBookmarks(draggedIndex, dropIndex)
reorderBookmarks(startIndex, endIndex) ==
    /\ startIndex # endIndex
    /\ bookmarks' = reordered(bookmarks, startIndex, endIndex)
    /\ saveBookmarks(bookmarks')
    /\ lastOp' = Op("reorderBookmarks", <<>>, <<>>)
    /\ UNCHANGED nextId
    /\ bookmarkFrame

clearBookmarks ==
    /\ bookmarks' = <<>>
    /\ saveBookmarks(<<>>)
    /\ lastOp' = Op("clearBookmarks", <<>>, <<>>)
    /\ UNCHANGED nextId
    /\ bookmarkFrame

\* the page is loaded again: the store is created with bookmarks: loadBookmarks()
startUp ==
    /\ bookmarks' = loadBookmarks(storage)
    /\ lastOp' = Op("startUp", <<>>, <<>>)
    /\ UNCHANGED <<storage, lastSaved, nextId>>
    /\ bookmarkFrame

NextBookmarks ==
    \/ \E path \in BookmarkPaths, value \in BookmarkValues : addBookmark(path, value, pathFormat)
    \/ \E i \in 1..Len(bookmarks), field \in BookmarkFields, text \in CellTexts :
          updateBookmark(bookmarks[i].id, field, text)
    \/ \E i \in 1..Len(bookmarks) : removeBookmark(bookmarks[i].id)
    \/ \E startIndex, endIndex \in 0..(Len(bookmarks) - 1) :
          reorderBookmarks(startIndex, endIndex)
    \/ clearBookmarks
    \/ startUp

SpecBookmarks == Init /\ [][NextBookmarks]_vars

-----------------------------------------------------------------------------
(* The import history of the store under its two operations *)

\* the entries added in one behaviour
MaxHistoryAdds == 12

HistorySources == {"file", "clipboard"}

\* addToHistory(item), the id from crypto.randomUUID()
addToHistory(source) ==
    /\ nextId <= MaxHistoryAdds
    /\ importHistory' = addToHistoryResult(importHistory, HistoryItem(source, nextId))
    /\ nextId' = nextId + 1
    /\ lastOp' = Op("addToHistory", <<>>, <<>>)
    /\ UNCHANGED <<jsonData, metadata, pathFormat, filterQuery, caseSensitive,
                   expandedPaths, collapsedPaths>>
    /\ UNCHANGED <<isLoading, error, pendingImport>>
    /\ UNCHANGED <<treeVars, pureVars, searchVars, sideVars>>

\* clearHistory()
clearHistory ==
    /\ importHistory' = <<>>
    /\ lastOp' = Op("clearHistory", <<>>, <<>>)
    /\ UNCHANGED <<jsonData, metadata, pathFormat, filterQuery, caseSensitive,
                   expandedPaths, collapsedPaths>>
    /\ UNCHANGED <<isLoading, error, pendingImport, nextId>>
    /\ UNCHANGED <<treeVars, pureVars, searchVars, sideVars>>

NextHistory ==
    \/ \E source \in HistorySources : addToHistory(source)
    \/ clearHistory

SpecHistory == Init /\ [][NextHistory]_vars

-----------------------------------------------------------------------------
(* The notification: the handlers of JsonTreeNode that show it, each starting *)
(* a 2000 ms timer that hides it.  Every timer has the same delay, so the     *)
(* callbacks run in the order the timers were started.                        *)

\* the most notifications shown in a run
MaxNotifications == 3

NotificationDocs == {DocPlain}

\* setCopyNotification(show, message)
setCopyNotification(show, message) ==
    /\ showCopyNotification' = show
    /\ copyMessage' = message

\* setCopyNotification(true, message); setTimeout(() => setCopyNotification(false), 2000)
notify(message) ==
    /\ nextTimer <= MaxNotifications
    /\ setCopyNotification(TRUE, message)
    /\ timers' = Append(timers, nextTimer)
    /\ shownBy' = nextTimer
    /\ nextTimer' = nextTimer + 1
    /\ UNCHANGED lastHide

\* the key of the node's component
nodeKey(node) == node.nodeSegments[Len(node.nodeSegments)].key

\* JsonTreeNode: handleCopyPath, past the await of copyToClipboard, which
\* writes nothing before it
handleCopyPath(node, success) ==
    /\ isRendered(node)
    /\ \E path \in {generatePath(node.nodeSegments, pathFormat)} :
          /\ lastOp' = Op("handleCopyPath", path, node.nodeSegments)
          /\ IF success
             THEN /\ selectedPath' = [present |-> TRUE, path |-> path]
                  /\ notify([kind |-> "Copied", text |-> path])
             ELSE UNCHANGED notificationVars
    /\ UNCHANGED <<jsonData, metadata, pathFormat, filterQuery, caseSensitive,
                   expandedPaths, collapsedPaths>>
    /\ UNCHANGED <<treeVars, pureVars, searchVars, importVars, bookmarkVars>>

\* JsonTreeNode: handleBookmark, addBookmark(path, value, pathFormat) and the
\* notification
handleBookmark(node) ==
    /\ isRendered(node)
    /\ nextId <= MaxBookmarks
    /\ \E path \in {generatePath(node.nodeSegments, pathFormat)} :
          /\ bookmarks' = Append(bookmarks, Bookmark(nextId, path, node.value, pathFormat))
          /\ saveBookmarks(bookmarks')
          /\ nextId' = nextId + 1
          /\ lastOp' = Op("handleBookmark", path, node.nodeSegments)
          /\ notify([kind |-> "Bookmarked", text |-> path])
    /\ UNCHANGED selectedPath
    /\ UNCHANGED <<jsonData, metadata, pathFormat, filterQuery, caseSensitive,
                   expandedPaths, collapsedPaths>>
    /\ UNCHANGED <<isLoading, error, importHistory, pendingImport>>
    /\ UNCHANGED <<treeVars, pureVars, searchVars>>

\* JsonTreeNode: handleExpandSubtree, expandSubtree(currentPath, jsonData) and
\* the notification
handleExpandSubtree(node) ==
    /\ isRendered(node)
    /\ isExpandable(node.value) /\ jsonData # NoData
    /\ expandedPaths' = expandSubtreeResult(expandedPaths, currentPath(node), jsonData)
    /\ lastOp' = Op("handleExpandSubtree", currentPath(node), node.nodeSegments)
    /\ notify([kind |-> "Expanded", text |-> nodeKey(node)])
    /\ UNCHANGED selectedPath
    /\ UNCHANGED <<jsonData, metadata, pathFormat, filterQuery, caseSensitive,
                   collapsedPaths>>
    /\ UNCHANGED <<treeVars, pureVars, searchVars, importVars, bookmarkVars>>

\* the callback of the oldest pending timer: () => setCopyNotification(false)
timerFires ==
    /\ timers # <<>>
    /\ lastHide' = [fired |-> TRUE, timer |-> Head(timers),
                    visible |-> showCopyNotification, shown |-> shownBy]
    /\ setCopyNotification(FALSE, NoMessage)
    /\ timers' = Tail(timers)
    /\ lastOp' = Op("timerFires", <<>>, <<>>)
    /\ UNCHANGED <<selectedPath, nextTimer, shownBy>>
    /\ UNCHANGED <<jsonData, metadata, pathFormat, filterQuery, caseSensitive,
                   expandedPaths, collapsedPaths>>
    /\ UNCHANGED <<treeVars, pureVars, searchVars, importVars, bookmarkVars>>

NextNotification ==
    \/ \E data \in NotificationDocs : setJsonData(data)
    \/ \E node \in nodes, success \in BOOLEAN : handleCopyPath(node, success)
    \/ \E node \in nodes : handleBookmark(node)
    \/ \E node \in nodes : handleExpandSubtree(node)
    \/ timerFires

SpecNotification == Init /\ [][NextNotification]_vars

-----------------------------------------------------------------------------
(* The filter engine as a pure function: getMatchingPaths applied to trees    *)
(* that are no loaded document (null) as well as to empty and ordinary ones   *)

\* null, {}, [], [null], {"A": null, "b": {}}, {"a": {"b": "x"}, "b": ["x"]}
MatchTrees ==
    {Null, ObjectValue(<<>>), ArrayValue(<<>>), ArrayValue(<<Null>>), DocNullLeaf, DocPlain}

MatchQueries == FilterQueries \cup {<<"n", "u", "l", "l">>, <<"N">>}

\* a tree, a query, a format and the option chosen, nothing computed yet
MatchCall(data, query, format, cs) ==
    [op |-> "input", data |-> data, query |-> query, format |-> format,
     caseSensitive |-> cs, result |-> {}]

InitMatch ==
    /\ InitStore
    /\ pathCall = NoPathCall
    /\ matchCall \in {MatchCall(data, query, format, cs) :
                          data \in MatchTrees, query \in MatchQueries,
                          format \in PathFormats, cs \in BOOLEAN}

\* result = getMatchingPaths(data, query, pathFormat, {caseSensitive})
callGetMatchingPaths ==
    /\ matchCall.op = "input"
    /\ matchCall' = [matchCall EXCEPT
                        !.op = "getMatchingPaths",
                        !.result = getMatchingPaths(matchCall.data, matchCall.query,
                                                    matchCall.format, matchCall.caseSensitive)]
    /\ UNCHANGED <<storeVars, treeVars, pathVars, sessionVars>>

NextMatch == callGetMatchingPaths

SpecMatch == InitMatch /\ [][NextMatch]_vars

-----------------------------------------------------------------------------
(* Properties *)

activeQuery == jsonData # NoData /\ ~IsBlank(filterQuery)

matchingNodes == {n \in nodes : nodeMatches(n, filterQuery, caseSensitive)}

SENTINELS == {EXPAND_ALL, EXPAND_TO_DEPTH_2}

\* C1: under a non-blank query, whenever the path of a node is in the set
\* getMatchingPaths returns, shouldShowNode is true for the canonical native
\* path of every proper ancestor of that node.
C1_AncestorInclusion ==
    activeQuery =>
        \A d \in nodes :
            generatePath(d.segments, pathFormat) \in matchingPaths =>
                \A a \in nodes :
                    isProperAncestor(a, d) => shouldShowNode(nativePath(a), matchingPaths)

\* C2: under a non-blank query that no node of the tree matches, shouldShowNode
\* is false for every node.
C2_PruningZeroMatches ==
    (activeQuery /\ matchingNodes = {}) => \A n \in nodes : ~shouldShow(n)

\* C3: under a non-blank query with at least one match, a node is shown only
\* if it is a match or a structural strict ancestor of a match.
C3_ShownOnlyMatchOrAncestor ==
    (activeQuery /\ matchingNodes # {}) =>
        \A n \in nodes :
            shouldShow(n) =>
                \/ n \in matchingNodes
                \/ \E d \in matchingNodes : isProperAncestor(n, d)

\* C4: under an active filter every proper ancestor of a matching node is
\* rendered expanded whatever the stored expansion state is, so every matching
\* node is displayed.
C4_AutoExpandOverride ==
    activeQuery =>
        \A d \in matchingNodes :
            /\ \A a \in nodes : isProperAncestor(a, d) => nodeIsExpanded(a)
            /\ isRendered(d)

\* C5: from every reachable expansion state and for the path of every node,
\* togglePath(path) applied twice restores expandedPaths and collapsedPaths.
C5_ToggleInvolution ==
    \A n \in nodes :
        LET once == togglePathResult(expandedPaths, collapsedPaths, currentPath(n))
            twice == togglePathResult(once.expandedPaths, once.collapsedPaths, currentPath(n))
        IN  twice.expandedPaths = expandedPaths /\ twice.collapsedPaths = collapsedPaths

\* C6: expandedPaths holds at most one bulk sentinel; with a sentinel it holds
\* nothing else; without one the collapsed-override set is empty.
C6_ModeExclusivity ==
    /\ Cardinality(expandedPaths \cap SENTINELS) <= 1
    /\ expandedPaths \cap SENTINELS # {} => expandedPaths \subseteq SENTINELS
    /\ expandedPaths \cap SENTINELS = {} => collapsedPaths = {}

\* C7: after expandSubtree, called in any mode, no bulk-mode flag remains in
\* expandedPaths.
C7_ExpandSubtreeClearsBulk ==
    lastOp.op = "expandSubtree" => expandedPaths \cap SENTINELS = {}

\* C8: after expandSubtree(rootPath, tree) the explicit set holds rootPath and
\* the canonical native path of every descendant of the node at rootPath, and
\* every expandable descendant is rendered expanded.
C8_ExpandSubtreeCoversDescendants ==
    lastOp.op = "expandSubtree" =>
        /\ lastOp.path \in expandedPaths
        /\ \A d \in nodes :
              (Len(lastOp.segments) < Len(d.segments)
                  /\ SubSeq(d.segments, 1, Len(lastOp.segments)) = lastOp.segments) =>
                  /\ nativePath(d) \in expandedPaths
                  /\ isExpandable(d.value) => nodeIsExpanded(d)

\* C9: in expand-all mode a path in the collapsed-override set is rendered
\* collapsed by the tree node of either version and by the text view.
C9_BulkOverridePrecedence ==
    EXPAND_ALL \in expandedPaths =>
        \A path \in collapsedPaths :
            /\ ~isExpanded(path, Len(splitPath(path)), matchingPaths, expandedPaths, collapsedPaths)
            /\ ~isExpandedNode(path, matchingPaths, expandedPaths)
            /\ ~isPathExpanded(path, expandedPaths, {})

\* C10: immediately after a document is loaded expandedPaths and
\* collapsedPaths are both empty.
C10_LoadResetsExpansion ==
    lastOp.op = "setJsonData" => expandedPaths = {} /\ collapsedPaths = {}

\* C11: after expandAll the state is expand-to-depth-2 with no override exactly
\* when the recorded node count is greater than 5000, and expand-all with no
\* override otherwise (a count of exactly 5000 and absent metadata included);
\* nothing of the previous explicit set or overrides is left.
C11_ExpandAllThreshold ==
    lastOp.op = "expandAll" =>
        /\ collapsedPaths = {}
        /\ (metadata.present /\ metadata.nodeCount > 5000) => expandedPaths = {EXPAND_TO_DEPTH_2}
        /\ ~(metadata.present /\ metadata.nodeCount > 5000) => expandedPaths = {EXPAND_ALL}

\* expandAll ran with a node count of exactly 5000
C11_Witness ==
    /\ lastOp.op = "expandAll"
    /\ metadata = Metadata(5000)
    /\ expandedPaths = {EXPAND_ALL}
    /\ jsonData # NoData

\* C12: after collapseAll, from any reachable state, expandedPaths and
\* collapsedPaths are both empty.
C12_CollapseAllEmpties ==
    lastOp.op = "collapseAll" => expandedPaths = {} /\ collapsedPaths = {}

\* collapseAll ran on a loaded document
C12_Witness ==
    /\ lastOp.op = "collapseAll"
    /\ jsonData # NoData
    /\ expandedPaths = {}

\* C13: in explicit mode togglePath(p), for the canonical path p of any node,
\* flips only the membership of p in expandedPaths and leaves the state in
\* explicit mode, whatever the key text of the node is.
C13_ToggleStaysExplicit ==
    expandedPaths \cap SENTINELS = {} =>
        \A n \in nodes :
            LET p == nativePath(n)
                r == togglePathResult(expandedPaths, collapsedPaths, p)
            IN  /\ r.expandedPaths \cap SENTINELS = {}
                /\ r.collapsedPaths = {}
                /\ r.expandedPaths = IF p \in expandedPaths THEN expandedPaths \ {p}
                                     ELSE expandedPaths \cup {p}

\* C14: in expand-to-depth-2 mode with no filter active, an expandable node is
\* rendered expanded exactly when its depth is at most 2 and its path is not in
\* the collapsed-override set, by the tree view and by the text view alike and
\* whatever its key contains.
C14_DepthModeExpansion ==
    (jsonData # NoData /\ expandedPaths = {EXPAND_TO_DEPTH_2} /\ IsBlank(filterQuery)) =>
        \A n \in nodes :
            isExpandable(n.value) =>
                /\ nodeIsExpanded(n)
                       <=> (Len(n.segments) <= 2 /\ currentPath(n) \notin collapsedPaths)
                /\ isPathExpanded(nativePath(n), expandedPaths, {})
                       <=> (Len(n.segments) <= 2 /\ nativePath(n) \notin collapsedPaths)

\* the node's row is displayed and its component renders it expanded
displayedExpanded(n) ==
    /\ isDisplayed(n, mountedNodes)
    /\ \E current \in {matchingPaths} :
          expandedFlag(n, current, expandedPaths, collapsedPaths)

\* the child components a node has mounted, and those that returned a row
mountedChildren(n) ==
    {k \in DOMAIN mountedNodes :
        Len(k) = Len(n.nodeSegments) + 1 /\ SubSeq(k, 1, Len(n.nodeSegments)) = n.nodeSegments}

childRows(n) == {k \in mountedChildren(n) : mountedNodes[k].shouldShow}

C16_PaginationMonotone ==
    \A n \in expandableNodes :
        (displayedExpanded(n) /\ n.nodeSegments \in DOMAIN shownBefore) =>
            mountedNodes[n.nodeSegments].displayedCount >= shownBefore[n.nodeSegments]

\* the concatenation of a sequence of strings
RECURSIVE joinTokens(_)
joinTokens(tokens) ==
    IF tokens = <<>> THEN <<>> ELSE Head(tokens) \o joinTokens(Tail(tokens))

\* a key that contains none of . [ ] whitespace - and is not purely numeric
plainKey(key) ==
    /\ \A i \in 1..Len(key) : key[i] \notin {".", "[", "]", "-", " "}
    /\ ~(Len(key) > 0 /\ \A i \in 1..Len(key) : key[i] \in Digit)

\* [i] for an array index
indexToken(segment) == <<"[">> \o segment.key \o <<"]">>

\* ['key'] with the single quotes of the key backslash-escaped
bracketToken(segment) == <<"[", "'">> \o replaceQuote(segment.key, "'") \o <<"'", "]">>

\* the dot-path token of the segment at position i (1-based)
dotPathToken(segment, i) ==
    IF segment.isArrayIndex THEN indexToken(segment)
    ELSE IF plainKey(segment.key)
         THEN (IF i = 1 THEN <<>> ELSE <<".">>) \o segment.key
         ELSE <<"\"">> \o replaceQuote(segment.key, "\"") \o <<"\"">>

\* the bracket token of a segment
bracketPathToken(segment) ==
    IF segment.isArrayIndex THEN indexToken(segment) ELSE bracketToken(segment)

\* C17: for every path, the jmespath serialization is the concatenation of: [i]
\* for an array index; the key itself, preceded by a dot unless it is the first
\* segment, for a key with none of . [ ] whitespace - that is not purely numeric;
\* the key in double quotes with its double quotes backslash-escaped and no dot
\* before it for every other key.
C17_JmespathSerialization ==
    (pathCall.op = "generatePath" /\ pathCall.format = "jmespath") =>
        pathCall.path =
            joinTokens([i \in 1..Len(pathCall.segments) |->
                            dotPathToken(pathCall.segments[i], i)])

\* C18: for every path, the empty path and the paths that begin with an array
\* index included, the jsonpath serialization is $ followed by ['key'] for each
\* key and [i] for each index; in the other three formats the empty path
\* serializes to the empty string.
C18_JsonpathRootMarker ==
    pathCall.op = "generatePath" =>
        /\ pathCall.format = "jsonpath" =>
              pathCall.path =
                  <<"$">> \o joinTokens([i \in 1..Len(pathCall.segments) |->
                                            bracketPathToken(pathCall.segments[i])])
        /\ (pathCall.format # "jsonpath" /\ pathCall.segments = <<>>) =>
              pathCall.path = <<>>

\* C19: in the python serialization every object key of the path, the first
\* segment included, is emitted as ['key'] with its single quotes
\* backslash-escaped, whatever the key contains (and every index as [i]).
C19_PythonBracketsEveryKey ==
    (pathCall.op = "generatePath" /\ pathCall.format = "python") =>
        pathCall.path =
            joinTokens([i \in 1..Len(pathCall.segments) |->
                            bracketPathToken(pathCall.segments[i])])

\* C20: for every path whose keys need no escaping and whose array indices are
\* non-negative integers, parsePath of its jmespath serialization is the path,
\* segment for segment, isArrayIndex flags included.
C20_JmespathRoundTrip ==
    (/\ pathCall.op = "parsePath"
     /\ pathCall.format = "jmespath"
     /\ \A i \in 1..Len(pathCall.segments) :
            IF pathCall.segments[i].isArrayIndex
            THEN Len(pathCall.segments[i].key) > 0 /\
                 \A j \in 1..Len(pathCall.segments[i].key) :
                     pathCall.segments[i].key[j] \in Digit
            ELSE plainKey(pathCall.segments[i].key))
        => pathCall.parsed = pathCall.segments

\* the text contains the filter query, compared exactly when caseSensitive is
\* set and after lower-casing both sides otherwise
containsQuery(text) ==
    \E i \in 0..(Len(text) - Len(filterQuery)) :
        \A j \in 1..Len(filterQuery) :
            IF caseSensitive THEN text[i + j] = filterQuery[j]
            ELSE LowerChar(text[i + j]) = LowerChar(filterQuery[j])

\* the stringified form of a leaf
leafText(value) == IF value.type = "null" THEN <<"n", "u", "l", "l">> ELSE value.text

\* the paths, in the selected format, of the nodes (the root, whose path is
\* empty, included) whose key or leaf value contains the query
pathsOfMatches ==
    {generatePath(n.segments, pathFormat) :
        n \in {m \in nodes : \/ containsQuery(m.segments[Len(m.segments)].key)
                             \/ ~isExpandable(m.value) /\ containsQuery(leafText(m.value))}}
      \cup (IF ~isExpandable(jsonData) /\ containsQuery(leafText(jsonData)) THEN {<<>>} ELSE {})

\* C21: for a non-blank query the match set is exactly the set of paths of the
\* nodes whose own key (or array-index text) contains the query or whose value
\* is a leaf whose stringified form ("null" for null) contains it, compared
\* after lower-casing both sides unless caseSensitive is set; a blank query
\* gives no match.
C21_MatchSetExact ==
    jsonData # NoData =>
        getMatchingPaths(jsonData, filterQuery, pathFormat, caseSensitive)
            = IF IsBlank(filterQuery) THEN {} ELSE pathsOfMatches

\* {"a": {"b": "x"}, "b": ["x"]} filtered by X without case sensitivity: both
\* leaves match, in a format that is not the default
C21_Witness ==
    /\ jsonData = DocPlain
    /\ filterQuery = <<"X">>
    /\ ~caseSensitive
    /\ pathFormat = "jsonpath"
    /\ Cardinality(getMatchingPaths(jsonData, filterQuery, pathFormat, caseSensitive)) = 2

C23_SearchCursorReset ==
    lastOp.op \in {"setSearchQuery", "toggleSearchCaseSensitive", "setJsonData", "clearJsonData"}
        => currentSearchIndex = 0

\* C24: when an import fails, the error message is set, the tree loaded before
\* and the import history are as they were when it started, and isLoading is
\* false once it has finished; when it succeeds jsonData is the parsed value,
\* exactly one entry, for this import, has been added to the history and error
\* is null.
C24_ImportOutcome ==
    /\ lastOp.op = "importFailed" =>
          /\ error # NoError
          /\ jsonData = NoData
          /\ \A i \in 1..Len(importHistory) : importHistory[i].id # nextId - 1
          /\ ~isLoading
    /\ lastOp.op = "importSucceeded" =>
          /\ jsonData = storedData(pendingImport.outcome.value)
          /\ Len(importHistory) >= 1
          /\ importHistory[1] = HistoryItem(pendingImport.source, nextId - 1)
          /\ \A i \in 2..Len(importHistory) : importHistory[i].id < nextId - 1
          /\ error = NoError
          /\ ~isLoading

\* a malformed clipboard text was imported after one successful file import
C24_Witness ==
    /\ lastOp.op = "importFailed"
    /\ pendingImport.source = "clipboard"
    /\ Len(importHistory) = 1
    /\ importHistory[1].source = "file"
    /\ error = ErrorMessage
    /\ ~isLoading

\* C25: for every node of the loaded tree and every selected path format, the
\* path the tree node builds for itself (currentPath) is the string the filter
\* engine stores in matchingPaths for that node, so that under an active filter
\* a node whose own key or value matches the query is itself shown.
C25_NodePathIsMatchPath ==
    \A n \in nodes :
        /\ currentPath(n) = generatePath(n.segments, pathFormat)
        /\ (activeQuery /\ n \in matchingNodes) => shouldShow(n)

\* C26: the native serialization is injective on the non-empty paths: no other
\* non-empty segment sequence gives the string generatePath gave for this one
\* (so an entry of expandedPaths or collapsedPaths names one node only).
C26_NativePathInjective ==
    (/\ pathCall.op = "generatePath"
     /\ pathCall.format = "jmespath"
     /\ pathCall.segments # <<>>)
        => \A other \in PathInputs :
              (other # <<>> /\ other # pathCall.segments)
                  => generatePath(other, "jmespath") # pathCall.path

\* C27: for a node with more than 100 children the displayed count is between
\* 0 and the number of children; load-more raises it by min(50, remaining) and
\* load-all sets it to the number of children; the load-more control of the
\* expanded node is present exactly when the count is below that number.
C27_PaginationBounds ==
    \A n \in expandableNodes :
        (isDisplayed(n, mountedNodes) /\ Len(childEntries(n.value)) > 100) =>
            LET total == Len(childEntries(n.value))
                shown == mountedNodes[n.nodeSegments].displayedCount
            IN  /\ 0 <= shown /\ shown <= total
                /\ displayedExpanded(n) => (hasMore(n) <=> shown < total)
                /\ (lastOp.op = "handleLoadMore" /\ lastOp.segments = n.nodeSegments) =>
                      shown = countBefore + Min(50, total - countBefore)
                /\ (lastOp.op = "handleLoadAll" /\ lastOp.segments = n.nodeSegments) =>
                      shown = total

\* load-more on a node with 120 children of which 100 were shown: the last 20
\* are added and the control is gone
C27_Witness ==
    /\ lastOp.op = "handleLoadMore"
    /\ countBefore = 100
    /\ \E n \in expandableNodes :
          /\ lastOp.segments = n.nodeSegments
          /\ Len(childEntries(n.value)) = 120
          /\ displayedExpanded(n)
          /\ mountedNodes[n.nodeSegments].displayedCount = 120
          /\ ~hasMore(n)

\* C28: after every bookmark operation the list in persistent storage is the
\* in-memory bookmarks list, and the list loaded at start-up is the last list
\* saved.
C28_BookmarksPersisted ==
    /\ lastOp.op \in {"addBookmark", "updateBookmark", "removeBookmark",
                      "reorderBookmarks", "clearBookmarks"}
          => storage.present /\ parse(storage.text) = bookmarks
    /\ (lastOp.op = "startUp" /\ lastSaved.saved) => bookmarks = lastSaved.list

\* C29: a notification stays visible until the timer started with it fires: a
\* timer callback that finds a notification visible is the timer of that
\* notification, never the timer of an earlier action.
C29_OwnTimerHides ==
    (lastHide.fired /\ lastHide.visible) => lastHide.timer = lastHide.shown

\* C30: importHistory never holds more than 10 entries, and each addToHistory
\* puts the new entry first, followed by the 9 most recent earlier entries (all
\* of them when there were fewer) in their previous order.
C30_HistoryCap ==
    /\ [](Len(importHistory) <= 10)
    /\ [][lastOp'.op = "addToHistory" =>
            /\ importHistory' # <<>>
            /\ importHistory'[1].id = nextId
            /\ Tail(importHistory') =
                  SubSeq(importHistory, 1, IF Len(importHistory) < 9 THEN Len(importHistory) ELSE 9)
         ]_vars

\* a full history received one more entry: the new one is first and the oldest
\* of the ten is gone
C30_Witness ==
    /\ lastOp.op = "addToHistory"
    /\ Len(importHistory) = 10
    /\ importHistory[1].id = 11
    /\ importHistory[10].id = 2

====
